---- MODULE Spec2Model ----
(***************************************************************************)
(* Model of HyperAlloc/CriticalGC.c: the two JNI entry points              *)
(*   Java_com_amazon_corretto_benchmark_hyperalloc_CriticalGC_acquire      *)
(*   Java_com_amazon_corretto_benchmark_hyperalloc_CriticalGC_release      *)
(* and the file-scope slot `sink` they share, together with the part of    *)
(* the JNI runtime they call (GetPrimitiveArrayCritical and                *)
(* ReleasePrimitiveArrayCritical).                                         *)
(***************************************************************************)
EXTENDS Integers, Sequences, FiniteSets, TLC

(* ------------------------------ bounds --------------------------------- *)
NumHandles == 2     \* jbyteArray handles the caller may pass
ArrLen == 2         \* bytes in each array
MaxByte == 1        \* byte values are 0..MaxByte
MaxBufs == 2        \* addresses the runtime may use for copied buffers
MaxCalls == 4       \* calls of acquire and release in one run
MaxScenario == 4    \* calls in one run of the caller that also stores
HistLen == 4        \* calls remembered in hist

(* ----------------------------- constants ------------------------------- *)
NULL == 0           \* the null pointer; a static jbyte* starts as NULL
JNI_COMMIT == 1     \* jni.h: copy back, keep the buffer
JNI_ABORT == 2      \* jni.h: free the buffer, do not copy back
ReleaseModeCommit == JNI_COMMIT   \* (faulty variant) release keeps the buffer
ReleaseModeAbort == JNI_ABORT     \* (faulty variant) release discards the contents
ReleaseMode == 0    \* the mode argument of line 11

Handles == 1..NumHandles
Threads == {1, 2}
Bytes == 0..MaxByte
Offsets == 1..ArrLen            \* index 1 is the byte at offset 0
DirectAddr(h) == h              \* address of array h's own storage
CopyAddrs == (NumHandles + 1)..(NumHandles + MaxBufs)
Ptrs == {NULL} \cup {DirectAddr(h) : h \in Handles} \cup CopyAddrs
NoBuf == [h |-> 0, data |-> <<>>]
NoReq == <<"none">>

VARIABLES
  sink,      \* static jbyte* sink
  arr,       \* runtime: contents of each array
  pins,      \* runtime: outstanding direct (aliasing) pins of each array
  bufs,      \* runtime: copied buffers, by address
  crashed,   \* the process was ended by undefined behaviour in the runtime
  req,       \* runtime: the request it received last
  nPin,      \* runtime: GetPrimitiveArrayCritical requests received
  nUnpin,    \* runtime: ReleasePrimitiveArrayCritical requests received
  nNull,     \* runtime: pin requests it answered with NULL
  nAcquire,  \* calls of acquire
  nRelease,  \* calls of release
  nStore,    \* stores the caller made through the pinned pointer
  hist,      \* the last HistLen calls, each with the request it issued
  snap,      \* contents of the array handed to the last acquire, at that call
  clean,     \* the run so far is acquire(H), release(H), acquire(H), ... for one H
  pc,        \* per thread: position in acquire / release
  reg,       \* per thread: the pointer held between the two steps of a call
  got,       \* per thread: the pointer its acquire obtained
  owner,     \* the thread whose acquire stored the slot last (0: none)
  from,      \* per thread: whose acquire had stored the slot its release read
  sent       \* per thread: the unpin request its release issued

rt == <<arr, pins, bufs, crashed, req, nPin, nUnpin, nNull>>
caller == <<nAcquire, nRelease, nStore, hist, snap, clean>>
thr == <<pc, reg, got, owner, from, sent>>
vars == <<sink, rt, caller, thr>>

InitArr == [h \in Handles |-> [i \in Offsets |-> (h + i) % (MaxByte + 1)]]

Init ==
  /\ sink = NULL
  /\ arr = InitArr
  /\ pins = [h \in Handles |-> 0]
  /\ bufs = [a \in CopyAddrs |-> NoBuf]
  /\ crashed = FALSE
  /\ req = NoReq
  /\ nPin = 0 /\ nUnpin = 0 /\ nNull = 0
  /\ nAcquire = 0 /\ nRelease = 0 /\ nStore = 0
  /\ hist = <<>>
  /\ snap = <<>>
  /\ clean = TRUE
  /\ pc = [t \in Threads |-> "idle"]
  /\ reg = [t \in Threads |-> NULL]
  /\ got = [t \in Threads |-> NULL]
  /\ owner = 0
  /\ from = [t \in Threads |-> 0]
  /\ sent = [t \in Threads |-> NoReq]

(* ------------------------- the JNI runtime ----------------------------- *)
\* p points at storage that is pinned now
Live(p) ==
  \/ \E h \in Handles : p = DirectAddr(h) /\ pins[h] > 0
  \/ p \in CopyAddrs /\ bufs[p].h # 0

\* outstanding pins of array h: direct ones and copied buffers not yet freed
Outstanding(h) == pins[h] + Cardinality({a \in CopyAddrs : bufs[a].h = h})

\* GetPrimitiveArrayCritical(env, h, 0) returning p: NULL when the pin cannot
\* be honoured, the array's own storage, or a fresh copy of it.
GetPrimitiveArrayCritical(h, p) ==
  /\ req' = <<"pin", h, p>>
  /\ nPin' = nPin + 1
  /\ UNCHANGED <<arr, crashed, nUnpin>>
  /\ nNull' = IF p = NULL THEN nNull + 1 ELSE nNull
  /\ \/ /\ p = NULL
        /\ UNCHANGED <<pins, bufs>>
     \/ /\ p = DirectAddr(h)
        /\ pins' = [pins EXCEPT ![h] = @ + 1]
        /\ UNCHANGED bufs
     \/ /\ p \in CopyAddrs
        /\ bufs[p].h = 0
        /\ \A a \in CopyAddrs : a < p => bufs[a].h # 0    \* first fit
        /\ bufs' = [bufs EXCEPT ![p] = [h |-> h, data |-> arr[h]]]
        /\ UNCHANGED pins

ValidDirect(h, p) == p = DirectAddr(h) /\ pins[h] > 0
ValidCopy(h, p) == p \in CopyAddrs /\ bufs[p].h = h

\* ReleasePrimitiveArrayCritical(env, h, p, mode). With a pointer that is not
\* a pin of h the behaviour is undefined: the process dies, the request is
\* ignored, or (a runtime that only counts critical sections) some other
\* outstanding pin is dropped.
ReleasePrimitiveArrayCritical(h, p, mode) ==
  /\ req' = <<"unpin", h, p, mode>>
  /\ nUnpin' = nUnpin + 1
  /\ UNCHANGED <<nPin, nNull>>
  /\ \/ /\ ValidDirect(h, p)
        /\ pins' = [pins EXCEPT ![h] = @ - 1]
        /\ UNCHANGED <<arr, bufs, crashed>>
     \/ /\ ValidCopy(h, p)
        /\ arr' = IF mode # JNI_ABORT THEN [arr EXCEPT ![h] = bufs[p].data] ELSE arr
        /\ bufs' = IF mode # JNI_COMMIT THEN [bufs EXCEPT ![p] = NoBuf] ELSE bufs
        /\ UNCHANGED <<pins, crashed>>
     \/ /\ ~ValidDirect(h, p) /\ ~ValidCopy(h, p)
        /\ \/ crashed' = TRUE /\ UNCHANGED <<arr, pins, bufs>>
           \/ UNCHANGED <<arr, pins, bufs, crashed>>
           \/ \E g \in Handles :
                /\ pins[g] > 0
                /\ pins' = [pins EXCEPT ![g] = @ - 1]
                /\ UNCHANGED <<arr, bufs, crashed>>

(* --------------------------- CriticalGC.c ------------------------------ *)
Calls == nAcquire + nRelease + nStore
MayCall == ~crashed /\ Calls < MaxCalls
Record(e) == IF Len(hist) < HistLen THEN Append(hist, e) ELSE Append(Tail(hist), e)
Last(k) == hist[Len(hist) + 1 - k]      \* the k-th most recent call

\* (faulty variant) acquire keeps a pointer the slot already holds
StoreSinkOnce(p) == sink' = IF sink = NULL THEN p ELSE sink

\* line 7: the assignment to sink
StoreSink(p) == sink' = p

\* (faulty variant) release passes no pointer
ReleaseArgNull == NULL

\* line 11: the pointer argument of the unpin request
ReleaseArg == sink

\* Java_..._CriticalGC_acquire(env, klass, arr)
acquire(h) ==
  /\ MayCall
  /\ \E p \in Ptrs :
       /\ GetPrimitiveArrayCritical(h, p)
       /\ StoreSink(p)
  /\ clean' = (clean /\ nAcquire = nRelease /\ (hist = <<>> \/ Last(1).h = h))
  /\ nAcquire' = nAcquire + 1
  /\ hist' = Record([op |-> "acquire", h |-> h, rq |-> req'])
  /\ snap' = arr[h]
  /\ UNCHANGED <<nRelease, nStore, thr>>

\* Java_..._CriticalGC_release(env, klass, arr)
release(h) ==
  /\ MayCall
  /\ ReleasePrimitiveArrayCritical(h, ReleaseArg, ReleaseMode)
  /\ nRelease' = nRelease + 1
  /\ hist' = Record([op |-> "release", h |-> h, rq |-> req'])
  /\ clean' = (clean /\ nAcquire = nRelease + 1 /\ Last(1).h = h)
  /\ UNCHANGED <<sink, nAcquire, nStore, snap, thr>>

\* the caller stores byte v at index i through the pinned pointer
store(i, v) ==
  /\ MayCall
  /\ Live(sink)
  /\ IF sink \in CopyAddrs
       THEN /\ bufs' = [bufs EXCEPT ![sink].data[i] = v]
            /\ UNCHANGED arr
       ELSE /\ arr' = [arr EXCEPT ![sink][i] = v]
            /\ UNCHANGED bufs
  /\ nStore' = nStore + 1
  /\ hist' = Record([op |-> "store", h |-> i, rq |-> <<"store", i, v>>])
  /\ clean' = FALSE
  /\ UNCHANGED <<sink, pins, crashed, req, nPin, nUnpin, nNull, nAcquire, nRelease, snap, thr>>

\* a single thread calling acquire and release in any order
Next ==
  \/ \E h \in Handles : acquire(h)
  \/ \E h \in Handles : release(h)

Spec == Init /\ [][Next]_vars

\* a single thread that also stores through the pinned pointer
NextStore ==
  \/ \E h \in Handles : Calls < MaxScenario /\ acquire(h)
  \/ \E h \in Handles : Calls < MaxScenario /\ release(h)
  \/ \E i \in Offsets, v \in Bytes : Calls < MaxScenario /\ store(i, v)

SpecStore == Init /\ [][NextStore]_vars

(* ------------------ two threads sharing the slot ----------------------- *)
\* Thread t runs acquire(HandleOf(t)) and then release(HandleOf(t)). sink is
\* a plain static, so each call is two steps another thread may come between:
\* acquire is the runtime's pin and then the store to sink (line 7), release
\* is the load of sink and then the runtime's unpin (line 11).
HandleOf(t) == t

acq_call(t) ==
  /\ pc[t] = "idle" /\ ~crashed
  /\ \E p \in Ptrs :
       /\ GetPrimitiveArrayCritical(HandleOf(t), p)
       /\ reg' = [reg EXCEPT ![t] = p]
  /\ pc' = [pc EXCEPT ![t] = "acq_store"]
  /\ UNCHANGED <<sink, caller, got, owner, from, sent>>

acq_store(t) ==
  /\ pc[t] = "acq_store" /\ ~crashed
  /\ StoreSink(reg[t])
  /\ got' = [got EXCEPT ![t] = reg[t]]
  /\ owner' = t
  /\ pc' = [pc EXCEPT ![t] = "acquired"]
  /\ UNCHANGED <<rt, caller, reg, from, sent>>

rel_load(t) ==
  /\ pc[t] = "acquired" /\ ~crashed
  /\ reg' = [reg EXCEPT ![t] = ReleaseArg]
  /\ from' = [from EXCEPT ![t] = owner]
  /\ pc' = [pc EXCEPT ![t] = "rel_call"]
  /\ UNCHANGED <<sink, rt, caller, got, owner, sent>>

rel_call(t) ==
  /\ pc[t] = "rel_call" /\ ~crashed
  /\ ReleasePrimitiveArrayCritical(HandleOf(t), reg[t], ReleaseMode)
  /\ sent' = [sent EXCEPT ![t] = req']
  /\ pc' = [pc EXCEPT ![t] = "done"]
  /\ UNCHANGED <<sink, caller, reg, got, owner, from>>

NextMT ==
  \/ \E t \in Threads : acq_call(t)
  \/ \E t \in Threads : acq_store(t)
  \/ \E t \in Threads : rel_load(t)
  \/ \E t \in Threads : rel_call(t)

SpecMT == Init /\ [][NextMT]_vars

(* ======================= single-threaded claims ======================== *)
IsAcquire(e) == e.op = "acquire"
IsRelease(e) == e.op = "release"
Handle(e) == e.h            \* the handle the caller passed
Ptr(e) == e.rq[3]           \* the pointer the runtime returned or received
Pinned(e) == IsAcquire(e) /\ Ptr(e) # NULL

\* the run is n >= 1 whole cycles acquire(H), release(H) from the initial state
CyclesDone == clean /\ nAcquire >= 1 /\ nAcquire = nRelease

\* C1: after n >= 1 consecutive cycles of acquire(H) immediately followed by
\* release(H) from the initial state, the runtime holds no outstanding pin
\* (no direct pin, no copied buffer left allocated, pins minus unpins is 0),
\* the slot points at nothing that is still pinned, the arrays hold what they
\* held at the start and, when the runtime honoured every pin, the process
\* is alive.
C1_CyclesLeaveUnpinned ==
  CyclesDone =>
    /\ \A h \in Handles : Outstanding(h) = 0
    /\ nPin - nUnpin = 0
    /\ ~Live(sink)
    /\ arr = InitArr
    /\ (nNull = 0 => ~crashed)

C1_Witness ==
  CyclesDone /\ nAcquire >= 2 /\ nNull = 0 /\ sink \in CopyAddrs /\ ~crashed

\* C2: a release(H) that directly follows an acquire(H) hands the runtime's
\* unpin exactly the pointer that acquire got from the runtime's pin, with H.
C2_ReleasePassesAcquiredPointer ==
  (Len(hist) >= 2 /\ IsRelease(Last(1)) /\ IsAcquire(Last(2))
                  /\ Handle(Last(1)) = Handle(Last(2))) =>
    /\ Last(2).rq[1] = "pin"
    /\ Last(1).rq[1] = "unpin"
    /\ Last(1).rq[2] = Handle(Last(1))
    /\ Ptr(Last(1)) = Ptr(Last(2))

C2_Witness ==
  /\ Len(hist) >= 4
  /\ IsRelease(Last(1)) /\ Pinned(Last(2)) /\ Handle(Last(1)) = Handle(Last(2))
  /\ IsRelease(Last(3)) /\ Pinned(Last(4)) /\ Handle(Last(3)) = Handle(Last(1))
  /\ Ptr(Last(2)) # Ptr(Last(4))

\* C3 (as claimed): while no acquire has been called, no unpin request has
\* reached the runtime, so a release in the initial state is refused.
C3_ReleaseBeforeAcquireRefused ==
  nAcquire = 0 => nUnpin = 0

\* C4 (as claimed): a release(H2) directly after a successful acquire(H1),
\* H2 # H1, does not hand H1's pointer to the runtime's unpin paired with H2.
C4_MismatchedReleaseRefused ==
  (Len(hist) >= 2 /\ IsRelease(Last(1)) /\ Pinned(Last(2))
                  /\ Handle(Last(1)) # Handle(Last(2))) =>
    Last(1).rq # <<"unpin", Handle(Last(1)), Ptr(Last(2)), 0>>

\* C5 (as claimed): when the runtime's pin returned NULL, the release that
\* follows does not unpin with the null pointer.
C5_FailedPinNotReleased ==
  (Len(hist) >= 2 /\ IsRelease(Last(1)) /\ IsAcquire(Last(2))
                  /\ Ptr(Last(2)) = NULL) =>
    ~(Last(1).rq[1] = "unpin" /\ Ptr(Last(1)) = NULL)

\* C7 (as claimed): right after a release that unpinned a non-null address
\* the slot no longer holds that address.
C7_ReleaseInvalidatesSlot ==
  (Len(hist) >= 1 /\ IsRelease(Last(1)) /\ Last(1).rq[1] = "unpin"
                  /\ Ptr(Last(1)) # NULL) =>
    sink # Ptr(Last(1))

\* hist[i], hist[i+1] are two successful acquires with no release between,
\* and every later call in hist is a release
Orphaned(i) ==
  /\ i + 1 <= Len(hist)
  /\ Pinned(hist[i]) /\ Pinned(hist[i + 1])
  /\ \A j \in (i + 2)..Len(hist) : IsRelease(hist[j])

OrphanEffect(i) ==
  /\ \A j \in (i + 2)..Len(hist) : Ptr(hist[j]) # Ptr(hist[i])
  /\ sink = Ptr(hist[i + 1])
  /\ (i + 1 = Len(hist) =>
        /\ Live(Ptr(hist[i])) /\ Live(Ptr(hist[i + 1]))
        /\ IF Handle(hist[i]) = Handle(hist[i + 1])
             THEN Outstanding(Handle(hist[i])) >= 2
             ELSE /\ Outstanding(Handle(hist[i])) >= 1
                  /\ Outstanding(Handle(hist[i + 1])) >= 1)

\* C8 (as claimed): after acquire(H1) and acquire(H2) with no release between
\* (both pins honoured), the slot holds H2's pointer, the runtime holds both
\* pins, and no release that follows hands H1's pointer to the unpin.
C8_SecondAcquireOrphansFirst ==
  \A i \in 1..Len(hist) : Orphaned(i) => OrphanEffect(i)

\* C8 (amended): the same whenever the second pin returned another pointer
\* than the first, which is always so when H2 differs from H1.
C8_SecondAcquireOrphansOther ==
  \A i \in 1..Len(hist) :
    Orphaned(i) =>
      /\ (Handle(hist[i]) # Handle(hist[i + 1]) => Ptr(hist[i]) # Ptr(hist[i + 1]))
      /\ (Ptr(hist[i]) # Ptr(hist[i + 1]) => OrphanEffect(i))

C8_Witness ==
  /\ Len(hist) = 4 /\ Orphaned(1)
  /\ Handle(hist[1]) # Handle(hist[2])
  /\ Handle(hist[3]) = Handle(hist[1]) /\ Handle(hist[4]) = Handle(hist[2])
  /\ ~crashed

\* C10: neither call is guarded. Every call of acquire issues one pin request
\* for the caller's handle and stores its result in the slot; every call of
\* release issues one unpin request with the caller's handle, the slot's
\* value and mode 0 and leaves the slot as it was; both calls are possible
\* in every state for every handle; so pin requests equal acquire calls and
\* unpin requests equal release calls.
C10_AcquireStep ==
  nAcquire' = nAcquire + 1 =>
    /\ nPin' = nPin + 1 /\ nUnpin' = nUnpin
    /\ req' = <<"pin", Handle(hist'[Len(hist')]), sink'>>
C10_ReleaseStep ==
  nRelease' = nRelease + 1 =>
    /\ nUnpin' = nUnpin + 1 /\ nPin' = nPin
    /\ req' = <<"unpin", Handle(hist'[Len(hist')]), sink, 0>>
    /\ sink' = sink
C10_Unguarded ==
  MayCall => \A h \in Handles : ENABLED acquire(h) /\ ENABLED release(h)
C10_OneRequestPerCall ==
  /\ [][C10_AcquireStep /\ C10_ReleaseStep]_vars
  /\ [](C10_Unguarded /\ nPin = nAcquire /\ nUnpin = nRelease)

C10_Witness ==
  /\ Len(hist) = 4
  /\ IsRelease(hist[1]) /\ IsAcquire(hist[2]) /\ IsAcquire(hist[3]) /\ IsRelease(hist[4])
  /\ nPin = 2 /\ nUnpin = 2

(* ========================= the store scenario ========================== *)
\* the last three calls were acquire(H) with the pin honoured, a store at
\* offset 0 through the pinned pointer, and release(H)
StoreScenario ==
  /\ Len(hist) >= 3
  /\ Pinned(Last(3))
  /\ Last(2).op = "store" /\ Last(2).h = 1
  /\ IsRelease(Last(1)) /\ Handle(Last(1)) = Handle(Last(3))

\* C6: after acquire(H), a store of v at offset 0 through the pinned pointer
\* and release(H), array H holds v at offset 0 and its other bytes are what
\* they were at the acquire, whether the pin was a direct alias or a copy.
C6_StoreReachesArray ==
  StoreScenario =>
    arr[Handle(Last(3))] = [snap EXCEPT ![1] = Last(2).rq[3]]

C6_Witness ==
  /\ StoreScenario
  /\ Ptr(Last(3)) \in CopyAddrs
  /\ arr[Handle(Last(3))][1] # snap[1]
  /\ nAcquire = 2

(* ============================ two threads ============================== *)
\* C9: when thread t's release read the slot after another thread u's acquire
\* had stored it (T1 acquire, T2 acquire, T1 release), t's unpin request
\* carries t's own handle and the pointer u's acquire obtained; when both
\* pins were honoured that pointer is not the one t's acquire obtained.
C9_ReleasePassesOtherThreadsPointer ==
  \A t \in Threads :
    (pc[t] = "done" /\ from[t] # t) =>
      /\ from[t] \in Threads
      /\ sent[t] = <<"unpin", HandleOf(t), got[from[t]], 0>>
      /\ (got[t] # NULL /\ got[from[t]] # NULL => sent[t][3] # got[t])

C9_Witness ==
  /\ pc[1] = "done" /\ pc[2] = "acquired" /\ from[1] = 2
  /\ got[1] # NULL /\ got[2] # NULL
  /\ sent[1] = <<"unpin", 1, got[2], 0>>

====
